---- MODULE Spec2Model ----
(***************************************************************************)
(* MOTChallengeMetrics (mmtrack/metrics/mot_challenge_metrics.py): the     *)
(* per-worker sequence buffers, the flush of a finished video to the       *)
(* interchange files, and the barrier / all-gather / leader-compute /      *)
(* broadcast protocol of evaluate, run by the ranks of one distributed     *)
(* job over a shared file system.                                          *)
(***************************************************************************)
EXTENDS Integers, Sequences, FiniteSets, TLC

\* ------------------------------------------------------------------ bounds
\* longest video (video_length ranges over 1..MaxLen)
MaxLen == 2
\* most items in one data batch handed to process
MaxBatch == 2
\* items handed to process over the whole run, all workers together
MaxItems == 2
\* evaluate cycles per worker
MaxCycles == 2

\* ------------------------------------------------------- the distributed job
\* the ranks of the job; rank 0 is the main process
Workers == {0, 1}

\* the dataset shard of each rank: a disjoint partition of the videos
Shard(w) == IF w = 0 THEN {"a", "b"} ELSE {"c"}

Videos == UNION {Shard(w) : w \in Workers}

\* videos whose data samples carry 'instances' (annotated); "b" is unannotated
Annotated == {"a", "c"}

\* what the external evaluation engine may report for a metric field
Scores == {0, 1}

NoVideo == "-"

\* ------------------------------------------------------------ the class body
TRACKER == "default-tracker"

default_prefix == "motchallenge-metric"

\* the fields extracted for metric = ['HOTA', 'CLEAR', 'Identity']
MetricKeys ==
    {"HOTA", "AssA", "DetA"}
    \cup {"MOTA", "MOTP", "IDSW", "TP", "FP", "FN", "Frag", "MT", "ML"}
    \cup {"IDF1", "IDTP", "IDFN", "IDFP", "IDP", "IDR"}

\* ------------------------------------------------------------------- values
\* Python values that evaluate hands around: None, or a dict of metric -> value
NoneVal == [tag |-> "None"]

DictVal(items) == [tag |-> "dict", items |-> items]

\* ------------------------------------------------------------- file system
\* a file path: the directory (a tuple of components), the stem and extension
Path(dir, stem, ext) == [dir |-> dir, stem |-> stem, ext |-> ext]

\* the directory mkdtemp creates on rank 0, and the results directory
SharedTmp == <<"tmp">>

ResDir == <<"res">>

\* the directory each rank's own tempfile.TemporaryDirectory() creates
LocalTmp(w) == <<"local" \o ToString(w)>>

IsPrefix(p, d) == Len(p) <= Len(d) /\ SubSeq(d, 1, Len(p)) = p

\* os.makedirs(d, exist_ok=True): d and every ancestor
Makedirs(ds, d) == ds \cup {SubSeq(d, 1, n) : n \in 1..Len(d)}

VARIABLES
    format_only,    \* self.format_only, the same on every rank
    resfile_path,   \* "None" or "res": the resfile_path argument
    interpolate_tracks_cfg, \* "None" or "cfg": self.interpolate_tracks_cfg
    aflink_cfg,     \* "None" or "cfg": self.aflink_cfg
    pc,             \* where each rank stands
    err,            \* the exception that ended a rank ("" while it runs)
    tmp_name,       \* self.tmp_dir.name of each rank ("" before get_tmpdir)
    tmp_sent,       \* rank 0 has broadcast the temp directory name
    dirs,           \* the directories that exist
    fs,             \* the files that exist: path -> sequence of lines
    seq_info,       \* self.seq_info of each rank: video -> info
    lazy,           \* self.seq_info is still the defaultdict
    flushing,       \* the video _save_one_video_gts_preds is writing
    cycle,          \* evaluate calls each rank has entered
    contrib,        \* what each rank handed to all_gather_object
    contrib_cycle,  \* ... and in which cycle
    metrics,        \* the local list `metrics` of evaluate, its element 0
    inbox,          \* broadcast payloads on their way to each rank
    items_used,     \* items handed to process so far (bounded by MaxItems)
    \* ---- history, read by the properties only
    presented,      \* per rank and video: the <<frame_id, video_length>> seen
    flush_count,    \* per rank and video: calls of _save_one_video_gts_preds
    flush_cycles,   \* ... and how many evaluate calls the rank had entered at each
    flush_log,      \* videos in the order their flush appended to the manifest
    flush_note,     \* per rank: the flush in progress had ground truth buffered
    compute_log,    \* <<rank, cycle>> of every compute_metrics call
    engine_log,     \* <<rank, cycle>> of every call of the evaluation engine
    cleanup_log,    \* <<rank, cycle>> of every run of the cleanup loop
    leader_out,     \* per cycle: the leader's metrics after prefixing
    returned,       \* per rank: the value every evaluate call returned
    touched         \* ranks whose evaluate read, wrote or deleted shared files

vars == <<format_only, resfile_path, interpolate_tracks_cfg, aflink_cfg, pc, err, tmp_name, tmp_sent, dirs, fs,
          seq_info, lazy, flushing, cycle, contrib, contrib_cycle, metrics,
          inbox, items_used, presented, flush_count, flush_cycles, flush_log, flush_note,
          compute_log, engine_log, cleanup_log, leader_out, returned, touched>>

cfgVars == <<format_only, resfile_path, interpolate_tracks_cfg, aflink_cfg>>

histVars == <<presented, flush_count, flush_cycles, flush_log, flush_note, compute_log,
              engine_log, cleanup_log, leader_out, returned, touched>>

\* ------------------------------------------------------------------- paths
\* _get_gt_dir: <tmp>/gt
GtDirOf(w) == Append(tmp_name[w], "gt")

\* _get_pred_dir: <resfile_path or tmp>/default-tracker
PredRootOf(w) == IF resfile_path = "None" THEN tmp_name[w] ELSE ResDir

PredDirOf(w) == Append(PredRootOf(w), TRACKER)

SeqmapOf(w) == Path(PredDirOf(w), "videoseq", "txt")

PredFileOf(w, v) == Path(PredDirOf(w), v, "txt")

GtFileOf(w, v) == Path(GtDirOf(w), v, "txt")

\* --------------------------------------------------------------- the state
DefaultInfo == [seq_length |-> -1, gt_tracks |-> <<>>, pred_tracks |-> <<>>]

\* the fields of a freshly created object on every rank, before __init__ runs
InitState ==
    /\ pc = [w \in Workers |-> "new"]
    /\ err = [w \in Workers |-> ""]
    /\ tmp_name = [w \in Workers |-> <<>>]
    /\ tmp_sent = FALSE
    /\ dirs = {}
    /\ fs = <<>>
    /\ seq_info = [w \in Workers |-> <<>>]
    /\ lazy = [w \in Workers |-> TRUE]
    /\ flushing = [w \in Workers |-> NoVideo]
    /\ cycle = [w \in Workers |-> 0]
    /\ contrib = [w \in Workers |-> <<>>]
    /\ contrib_cycle = [w \in Workers |-> 0]
    /\ metrics = [w \in Workers |-> NoneVal]
    /\ inbox = [w \in Workers |-> <<>>]
    /\ items_used = 0
    /\ presented = [w \in Workers |-> [v \in Videos |-> <<>>]]
    /\ flush_count = [w \in Workers |-> [v \in Videos |-> 0]]
    /\ flush_cycles = [w \in Workers |-> [v \in Videos |-> <<>>]]
    /\ flush_log = <<>>
    /\ flush_note = [w \in Workers |-> FALSE]
    /\ compute_log = <<>>
    /\ engine_log = <<>>
    /\ cleanup_log = <<>>
    /\ leader_out = <<>>
    /\ returned = [w \in Workers |-> <<>>]
    /\ touched = {}

\* the arguments of __init__: no post-processor is configured (the defaults)
Init ==
    /\ format_only \in BOOLEAN
    /\ resfile_path \in {"None", "res"}
    /\ interpolate_tracks_cfg = "None"
    /\ aflink_cfg = "None"
    /\ InitState

\* the arguments of __init__: any choice of post-processors, default resfile_path
InitPost ==
    /\ format_only \in BOOLEAN
    /\ resfile_path = "None"
    /\ interpolate_tracks_cfg \in {"None", "cfg"}
    /\ aflink_cfg \in {"None", "cfg"}
    /\ InitState

\* mutant of Raise: the exception is recorded but swallowed, the rank goes on
\* to the broadcast of evaluate
RaiseSwallowed(w, e) ==
    /\ pc' = [pc EXCEPT ![w] = "bcast"]
    /\ err' = [err EXCEPT ![w] = e]

\* a rank ends with an exception
Raise(w, e) ==
    /\ pc' = [pc EXCEPT ![w] = "crashed"]
    /\ err' = [err EXCEPT ![w] = e]

\* ------------------------------------------------------------- __init__
\* tempfile.TemporaryDirectory() and get_tmpdir(): rank 0 makes the shared
\* directory and broadcasts its name, the others wait for the broadcast
CtorTmpDir(w) ==
    /\ pc[w] = "new"
    /\ w = 0 \/ tmp_sent
    /\ dirs' = dirs \cup {LocalTmp(w)} \cup (IF w = 0 THEN {SharedTmp} ELSE {})
    /\ tmp_sent' = (tmp_sent \/ w = 0)
    /\ tmp_name' = [tmp_name EXCEPT ![w] = SharedTmp]
    /\ pc' = [pc EXCEPT ![w] = "ctor_gt"]
    /\ UNCHANGED <<cfgVars, err, fs, seq_info, lazy, flushing, cycle, contrib,
                   contrib_cycle, metrics, inbox, items_used, histVars>>

\* self.gt_dir = self._get_gt_dir()
CtorGtDir(w) ==
    /\ pc[w] = "ctor_gt"
    /\ dirs' = Makedirs(dirs, GtDirOf(w))
    /\ pc' = [pc EXCEPT ![w] = "ctor_rm"]
    /\ UNCHANGED <<cfgVars, err, tmp_name, tmp_sent, fs, seq_info, lazy,
                   flushing, cycle, contrib, contrib_cycle, metrics, inbox,
                   items_used, histVars>>

\* shutil.rmtree(d, ignore_errors=True)
Rmtree(f, d) == [p \in {q \in DOMAIN f : ~IsPrefix(d, q.dir)} |-> f[p]]

RmtreeDirs(ds, d) == {x \in ds : ~IsPrefix(d, x)}

\* _get_pred_dir, first half: remove a results directory that exists
CtorRmtree(w) ==
    /\ pc[w] = "ctor_rm"
    /\ IF resfile_path # "None" /\ ResDir \in dirs
       THEN /\ fs' = Rmtree(fs, ResDir)
            /\ dirs' = RmtreeDirs(dirs, ResDir)
       ELSE UNCHANGED <<fs, dirs>>
    /\ pc' = [pc EXCEPT ![w] = "ctor_mk"]
    /\ UNCHANGED <<cfgVars, err, tmp_name, tmp_sent, seq_info, lazy, flushing,
                   cycle, contrib, contrib_cycle, metrics, inbox, items_used,
                   histVars>>

\* _get_pred_dir, second half: os.makedirs(pred_dir, exist_ok=True)
CtorMakedirs(w) ==
    /\ pc[w] = "ctor_mk"
    /\ dirs' = Makedirs(dirs, PredDirOf(w))
    /\ pc' = [pc EXCEPT ![w] = "ctor_seqmap"]
    /\ UNCHANGED <<cfgVars, err, tmp_name, tmp_sent, fs, seq_info, lazy,
                   flushing, cycle, contrib, contrib_cycle, metrics, inbox,
                   items_used, histVars>>

\* open(path, 'w') / open(path, 'wt') and write the lines: truncates
WriteFile(f, p, lines) ==
    [q \in DOMAIN f \cup {p} |-> IF q = p THEN lines ELSE f[q]]

\* open(path, 'a') and write one line: creates the file when it is missing
AppendFile(f, p, line) ==
    [q \in DOMAIN f \cup {p} |->
        IF q = p THEN (IF p \in DOMAIN f THEN Append(f[p], line) ELSE <<line>>)
        ELSE f[q]]

\* with open(self.seqmap, 'w') as f: f.write('name\n')
CtorSeqmap(w) ==
    /\ pc[w] = "ctor_seqmap"
    /\ IF PredDirOf(w) \in dirs
       THEN /\ fs' = WriteFile(fs, SeqmapOf(w), <<"name">>)
            /\ pc' = [pc EXCEPT ![w] = "idle"]
            /\ UNCHANGED err
       ELSE /\ Raise(w, "FileNotFoundError")
            /\ UNCHANGED fs
    /\ UNCHANGED <<cfgVars, tmp_name, tmp_sent, dirs, seq_info, lazy, flushing,
                   cycle, contrib, contrib_cycle, metrics, inbox, items_used,
                   histVars>>

\* -------------------------------------------------------------- process
\* one (data, pred) pair of a batch: the video, frame_id and video_length of
\* its data sample; an annotated video's sample carries one instance, and
\* every prediction carries one tracked instance
Items(w) ==
    {it \in [video : Shard(w), frame_id : 0..(MaxLen - 1), video_length : 1..MaxLen] :
        it.frame_id < it.video_length}

Batches(w) == UNION {[1..n -> Items(w)] : n \in 1..MaxBatch}

\* the track records built from one item: np.array([frame_id + 1, ...])
GtRecords(it) == IF it.video \in Annotated THEN <<it.frame_id + 1>> ELSE <<>>

PredRecords(it) == <<it.frame_id + 1>>

\* self.seq_info[video]: the defaultdict creates the entry, a dict raises
Touch(info, v) == IF v \in DOMAIN info THEN info ELSE info @@ (v :> DefaultInfo)

\* mutant of Record: the `== -1` test is lost, every item sets the length
RecordOverwrites(info, it) ==
    LET v  == it.video
        i0 == Touch(info, v)
        i1 == [i0 EXCEPT ![v].seq_length = it.video_length]
        i2 == [i1 EXCEPT ![v].gt_tracks = @ \o GtRecords(it)]
    IN  [i2 EXCEPT ![v].pred_tracks = @ \o PredRecords(it)]

\* the body of the loop for one item, up to the last-frame test
Record(info, it) ==
    LET v  == it.video
        i0 == Touch(info, v)
        i1 == IF i0[v].seq_length = -1
              THEN [i0 EXCEPT ![v].seq_length = it.video_length]
              ELSE i0
        i2 == [i1 EXCEPT ![v].gt_tracks = @ \o GtRecords(it)]
    IN  [i2 EXCEPT ![v].pred_tracks = @ \o PredRecords(it)]

\* the last-frame test of the loop
IsLastFrame(it) == it.frame_id = it.video_length - 1

\* the loop over the batch from item i on: the buffers it leaves, the video it
\* flushes (the loop breaks there) and whether the lookup raised KeyError
RECURSIVE ProcessLoop(_, _, _, _)
ProcessLoop(info, isLazy, batch, i) ==
    IF i > Len(batch)
    THEN [info |-> info, flush |-> NoVideo, raised |-> FALSE]
    ELSE LET it == batch[i] IN
         IF it.video \notin DOMAIN info /\ ~isLazy
         THEN [info |-> info, flush |-> NoVideo, raised |-> TRUE]
         ELSE LET next == Record(info, it) IN
              IF IsLastFrame(it)
              THEN [info |-> next, flush |-> it.video, raised |-> FALSE]
              ELSE ProcessLoop(next, isLazy, batch, i + 1)

\* history: every item of the batch was presented to the rank
RECURSIVE Present(_, _, _)
Present(h, batch, i) ==
    IF i > Len(batch) THEN h
    ELSE Present([h EXCEPT ![batch[i].video] =
                     Append(@, <<batch[i].frame_id, batch[i].video_length>>)],
                 batch, i + 1)

\* process(data_batch, predictions), up to the call of the flush
ProcessCall(w) ==
    /\ pc[w] = "idle"
    /\ \E batch \in Batches(w) :
        /\ items_used + Len(batch) <= MaxItems
        /\ items_used' = items_used + Len(batch)
        /\ presented' = [presented EXCEPT ![w] = Present(@, batch, 1)]
        /\ LET r == ProcessLoop(seq_info[w], lazy[w], batch, 1) IN
            /\ seq_info' = [seq_info EXCEPT ![w] = r.info]
            /\ IF r.raised
               THEN /\ Raise(w, "KeyError")
                    /\ UNCHANGED <<flushing, flush_count, flush_cycles>>
               ELSE IF r.flush # NoVideo
               THEN /\ pc' = [pc EXCEPT ![w] = "flush_files"]
                    /\ flushing' = [flushing EXCEPT ![w] = r.flush]
                    /\ flush_count' = [flush_count EXCEPT ![w][r.flush] = @ + 1]
                    /\ flush_cycles' = [flush_cycles EXCEPT ![w][r.flush] =
                                          Append(@, cycle[w])]
                    /\ UNCHANGED err
               ELSE UNCHANGED <<pc, err, flushing, flush_count, flush_cycles>>
    /\ UNCHANGED <<cfgVars, tmp_name, tmp_sent, dirs, fs, lazy, cycle, contrib,
                   contrib_cycle, metrics, inbox, flush_log, flush_note,
                   compute_log, engine_log, leader_out, returned, touched, cleanup_log>>

\* ---------------------------------------------- _save_one_video_gts_preds
\* '%d,%d,%.3f,%.3f,%.3f,%.3f,%.3f,-1,-1,-1\n': the record, then the sentinels
PredLine(t) == <<t, -1, -1, -1>>

\* '%d,%d,%d,%d,%d,%d,%d,%d,%.5f\n'
GtLine(t) == <<t>>

PredLines(tracks) == [i \in 1..Len(tracks) |-> PredLine(tracks[i])]

GtLines(tracks) == [i \in 1..Len(tracks) |-> GtLine(tracks[i])]

\* mmtrack.core.appearance_free_link, an opaque transform of the track array:
\* it relabels tracks, here every record is moved to another identity
appearance_free_link(tracks) == [i \in 1..Len(tracks) |-> tracks[i] + 10]

\* mmtrack.core.interpolate_tracks, an opaque transform of the track array:
\* it fills gaps, here one filled-in record follows the given ones
interpolate_tracks(tracks) == Append(tracks, 0)

\* mutant of PostProcess: interpolation runs first, re-linking on its output
PostProcessInterpolateFirst(tracks, aflink, interp) ==
    LET t1 == IF interp # "None" THEN interpolate_tracks(tracks) ELSE tracks
    IN  IF aflink # "None" THEN appearance_free_link(t1) ELSE t1

\* the two optional post-processors of the predictions, in the order of the code
PostProcess(tracks, aflink, interp) ==
    LET t1 == IF aflink # "None" THEN appearance_free_link(tracks) ELSE tracks
    IN  IF interp # "None" THEN interpolate_tracks(t1) ELSE t1

\* mutant of WritesGt: the ground-truth file is written whatever is buffered
WritesGtAlways(tracks) == TRUE

\* `if info['gt_tracks']:` the ground-truth file is written for a non-empty list
WritesGt(tracks) == tracks # <<>>

\* the prediction file, then the ground-truth file; both buffers are cleared
FlushFiles(w) ==
    /\ pc[w] = "flush_files"
    /\ LET v == flushing[w]
           info == seq_info[w][v]
       IN IF PredDirOf(w) \notin dirs
          THEN /\ Raise(w, "FileNotFoundError")
               /\ UNCHANGED <<fs, seq_info, flush_note>>
          ELSE /\ LET f1 == WriteFile(fs, PredFileOf(w, v),
                                PredLines(PostProcess(info.pred_tracks, aflink_cfg,
                                                      interpolate_tracks_cfg)))
                  IN fs' = IF WritesGt(info.gt_tracks)
                           THEN WriteFile(f1, GtFileOf(w, v), GtLines(info.gt_tracks))
                           ELSE f1
               /\ seq_info' = [seq_info EXCEPT ![w][v] =
                                 [@ EXCEPT !.pred_tracks = <<>>, !.gt_tracks = <<>>]]
               /\ flush_note' = [flush_note EXCEPT ![w] = info.gt_tracks # <<>>]
               /\ pc' = [pc EXCEPT ![w] = "flush_seqmap"]
               /\ UNCHANGED err
    /\ UNCHANGED <<cfgVars, tmp_name, tmp_sent, dirs, lazy, flushing, cycle,
                   contrib, contrib_cycle, metrics, inbox, items_used, presented,
                   flush_count, flush_cycles, flush_log, compute_log, engine_log, leader_out,
                   returned, touched, cleanup_log>>

\* with open(self.seqmap, 'a') as f: f.write(seq + '\n'); process returns
FlushSeqmap(w) ==
    /\ pc[w] = "flush_seqmap"
    /\ IF PredDirOf(w) \notin dirs
       THEN /\ Raise(w, "FileNotFoundError")
            /\ UNCHANGED <<fs, flush_log, flushing>>
       ELSE /\ fs' = AppendFile(fs, SeqmapOf(w), flushing[w])
            /\ flush_log' = Append(flush_log, flushing[w])
            /\ flushing' = [flushing EXCEPT ![w] = NoVideo]
            /\ pc' = [pc EXCEPT ![w] = "idle"]
            /\ UNCHANGED err
    /\ UNCHANGED <<cfgVars, tmp_name, tmp_sent, dirs, seq_info, lazy, cycle,
                   contrib, contrib_cycle, metrics, inbox, items_used, presented,
                   flush_count, flush_cycles, flush_note, compute_log, engine_log, leader_out,
                   returned, touched, cleanup_log>>

\* ------------------------------------------------------------- evaluate
\* mutant of IsMainProcess: every rank takes itself for the main process
EveryRankIsMain(w) == TRUE

\* is_main_process()
IsMainProcess(w) == w = 0

\* mutant of BarrierOpen: barrier() returns without waiting for the others
BarrierAlwaysOpen(w) == TRUE

\* barrier() lets a rank through once every rank has entered the same cycle
BarrierOpen(w) == \A u \in Workers : cycle[u] >= cycle[w]

\* mutant of Update: the dict is replaced instead of updated
UpdateReplaces(d1, d2) == d2

\* dict.update: the entries of d2 replace those of d1
Update(d1, d2) ==
    [k \in DOMAIN d1 \cup DOMAIN d2 |-> IF k \in DOMAIN d2 THEN d2[k] ELSE d1[k]]

\* all_seq_info = dict(); for _seq_info in gathered: all_seq_info.update(_seq_info)
RECURSIVE MergeFrom(_, _, _)
MergeFrom(acc, gathered, i) ==
    IF i > Len(gathered) THEN acc
    ELSE MergeFrom(Update(acc, gathered[i]), gathered, i + 1)

Merge(gathered) == MergeFrom(<<>>, gathered, 1)

\* what all_gather_object returns: the ranks' objects in rank order
Gathered == [i \in 1..Cardinality(Workers) |-> contrib[i - 1]]

\* evaluate is called and the rank waits in barrier()
EvalEnter(w) ==
    /\ pc[w] = "idle"
    /\ cycle[w] < MaxCycles
    /\ cycle' = [cycle EXCEPT ![w] = @ + 1]
    /\ pc' = [pc EXCEPT ![w] = "barrier"]
    /\ UNCHANGED <<cfgVars, err, tmp_name, tmp_sent, dirs, fs, seq_info, lazy,
                   flushing, contrib, contrib_cycle, metrics, inbox, items_used,
                   histVars>>

\* barrier() returns
EvalBarrier(w) ==
    /\ pc[w] = "barrier"
    /\ BarrierOpen(w)
    /\ pc' = [pc EXCEPT ![w] = "gather"]
    /\ UNCHANGED <<cfgVars, err, tmp_name, tmp_sent, dirs, fs, seq_info, lazy,
                   flushing, cycle, contrib, contrib_cycle, metrics, inbox,
                   items_used, histVars>>

\* all_gather_object(dict(self.seq_info)): the rank hands in its own dict
EvalGather(w) ==
    /\ pc[w] = "gather"
    /\ contrib' = [contrib EXCEPT ![w] = seq_info[w]]
    /\ contrib_cycle' = [contrib_cycle EXCEPT ![w] = cycle[w]]
    /\ pc' = [pc EXCEPT ![w] = "merge"]
    /\ UNCHANGED <<cfgVars, err, tmp_name, tmp_sent, dirs, fs, seq_info, lazy,
                   flushing, cycle, metrics, inbox, items_used, histVars>>

\* all_gather_object returns once every rank has handed in; the rank merges the
\* list into a plain dict, and a rank that is not the main process sets
\* metrics = [None]
EvalMerge(w) ==
    /\ pc[w] = "merge"
    /\ \A u \in Workers : contrib_cycle[u] >= cycle[w]
    /\ seq_info' = [seq_info EXCEPT ![w] = Merge(Gathered)]
    /\ lazy' = [lazy EXCEPT ![w] = FALSE]
    /\ IF IsMainProcess(w)
       THEN /\ pc' = [pc EXCEPT ![w] = "compute"]
            /\ UNCHANGED metrics
       ELSE /\ pc' = [pc EXCEPT ![w] = "bcast"]
            /\ metrics' = [metrics EXCEPT ![w] = NoneVal]
    /\ UNCHANGED <<cfgVars, err, tmp_name, tmp_sent, dirs, fs, flushing, cycle,
                   contrib, contrib_cycle, inbox, items_used, histVars>>

\* ------------------------------------------------------- compute_metrics
\* mutant of FormatOnlyReturns: the format-only test is lost
FormatOnlyIgnored(fo) == FALSE

\* `if self.format_only: return eval_results`
FormatOnlyReturns(fo) == fo

\* the fields of eval_results, every one averaged from the engine's output
Extract(score) == {<<k, score>> : k \in MetricKeys}

\* self.prefix is prefix or default_prefix; '/'.join((self.prefix, k))
Prefixed(items) ==
    IF default_prefix # ""
    THEN {<<default_prefix \o "/" \o kv[1], kv[2]>> : kv \in items}
    ELSE items

\* glob(osp.join(self.tmp_dir.name, '*.txt')): the files of that directory itself
Glob(f, dir, ext) == {p \in DOMAIN f : p.dir = dir /\ p.ext = ext}

\* os.remove of each
Remove(f, ps) == [p \in DOMAIN f \ ps |-> f[p]]

\* history of a compute_metrics call by rank w
LogCompute(w) == compute_log' = Append(compute_log, <<w, cycle[w]>>)

LogLeaderOut(w, val) ==
    leader_out' = IF w = 0 THEN Append(leader_out, val) ELSE leader_out

\* format-only: the empty dict comes back, nothing else happens
ComputeFormatOnly(w) ==
    /\ pc[w] = "compute"
    /\ FormatOnlyReturns(format_only)
    /\ metrics' = [metrics EXCEPT ![w] = DictVal(Prefixed({}))]
    /\ pc' = [pc EXCEPT ![w] = "bcast"]
    /\ LogCompute(w)
    /\ LogLeaderOut(w, DictVal(Prefixed({})))
    /\ UNCHANGED <<cfgVars, err, tmp_name, tmp_sent, dirs, fs, seq_info, lazy,
                   flushing, cycle, contrib, contrib_cycle, inbox, items_used,
                   presented, flush_count, flush_cycles, flush_log, flush_note, engine_log,
                   returned, touched, cleanup_log>>

\* the compute path: the engine reads the files and reports, the fields are
\* extracted, the *.txt files of the temp directory are removed
ComputeEvaluate(w) ==
    /\ pc[w] = "compute"
    /\ ~FormatOnlyReturns(format_only)
    /\ \E score \in Scores :
        /\ metrics' = [metrics EXCEPT ![w] = DictVal(Prefixed(Extract(score)))]
        /\ LogLeaderOut(w, DictVal(Prefixed(Extract(score))))
    /\ fs' = Remove(fs, Glob(fs, tmp_name[w], "txt"))
    /\ pc' = [pc EXCEPT ![w] = "bcast"]
    /\ LogCompute(w)
    /\ engine_log' = Append(engine_log, <<w, cycle[w]>>)
    /\ cleanup_log' = Append(cleanup_log, <<w, cycle[w]>>)
    /\ touched' = touched \cup {w}
    /\ UNCHANGED <<cfgVars, err, tmp_name, tmp_sent, dirs, seq_info, lazy,
                   flushing, cycle, contrib, contrib_cycle, inbox, items_used,
                   presented, flush_count, flush_cycles, flush_log, flush_note, returned>>

\* the engine raises inside evaluator.evaluate: compute_metrics does not return
ComputeEngineFails(w) ==
    /\ pc[w] = "compute"
    /\ ~FormatOnlyReturns(format_only)
    /\ Raise(w, "EngineError")
    /\ LogCompute(w)
    /\ engine_log' = Append(engine_log, <<w, cycle[w]>>)
    /\ touched' = touched \cup {w}
    /\ UNCHANGED <<cfgVars, tmp_name, tmp_sent, dirs, fs, seq_info, lazy,
                   flushing, cycle, contrib, contrib_cycle, metrics, inbox,
                   items_used, presented, flush_count, flush_cycles, flush_log, flush_note,
                   leader_out, returned, cleanup_log>>

\* the engine returns, but its output lacks a field that lines 279-307 index:
\* the lookup raises before the cleanup loop is reached
ComputeExtractFails(w) ==
    /\ pc[w] = "compute"
    /\ ~FormatOnlyReturns(format_only)
    /\ Raise(w, "ExtractError")
    /\ LogCompute(w)
    /\ engine_log' = Append(engine_log, <<w, cycle[w]>>)
    /\ touched' = touched \cup {w}
    /\ UNCHANGED <<cfgVars, tmp_name, tmp_sent, dirs, fs, seq_info, lazy,
                   flushing, cycle, contrib, contrib_cycle, metrics, inbox,
                   items_used, presented, flush_count, flush_cycles, flush_log, flush_note,
                   cleanup_log, leader_out, returned>>

\* ------------------------------------------------ broadcast and return
\* mutant of Received: the receiving rank keeps its own list
ReceivedKeepsLocal(local, payload) == local

\* what a receiving rank's list holds after broadcast_object_list
Received(local, payload) == payload

\* broadcast_object_list(metrics): rank 0 sends its list, the others wait for
\* it; then self.results.clear() and return metrics[0]
\* mutant of EvalBroadcast: the leader returns without sending its list
EvalBroadcastLeaderSkips(w) ==
    /\ pc[w] = "bcast"
    /\ IF w = 0
       THEN /\ returned' = [returned EXCEPT ![w] = Append(@, metrics[w])]
            /\ UNCHANGED <<metrics, inbox>>
       ELSE /\ inbox[w] # <<>>
            /\ inbox' = [inbox EXCEPT ![w] = Tail(@)]
            /\ metrics' = [metrics EXCEPT ![w] = Received(@, Head(inbox[w]))]
            /\ returned' = [returned EXCEPT ![w] =
                              Append(@, Received(metrics[w], Head(inbox[w])))]
    /\ pc' = [pc EXCEPT ![w] = "idle"]
    /\ UNCHANGED <<cfgVars, err, tmp_name, tmp_sent, dirs, fs, seq_info, lazy,
                   flushing, cycle, contrib, contrib_cycle, items_used, presented,
                   flush_count, flush_cycles, flush_log, flush_note, compute_log,
                   engine_log, leader_out, touched, cleanup_log>>

EvalBroadcast(w) ==
    /\ pc[w] = "bcast"
    /\ IF w = 0
       THEN /\ inbox' = [u \in Workers |->
                           IF u = w THEN inbox[u] ELSE Append(inbox[u], metrics[w])]
            /\ returned' = [returned EXCEPT ![w] = Append(@, metrics[w])]
            /\ UNCHANGED metrics
       ELSE /\ inbox[w] # <<>>
            /\ inbox' = [inbox EXCEPT ![w] = Tail(@)]
            /\ metrics' = [metrics EXCEPT ![w] = Received(@, Head(inbox[w]))]
            /\ returned' = [returned EXCEPT ![w] =
                              Append(@, Received(metrics[w], Head(inbox[w])))]
    /\ pc' = [pc EXCEPT ![w] = "idle"]
    /\ UNCHANGED <<cfgVars, err, tmp_name, tmp_sent, dirs, fs, seq_info, lazy,
                   flushing, cycle, contrib, contrib_cycle, items_used, presented,
                   flush_count, flush_cycles, flush_log, flush_note, compute_log, engine_log,
                   leader_out, touched, cleanup_log>>

\* ------------------------------------------------------ the specification
Next ==
    \E w \in Workers :
        \/ CtorTmpDir(w)
        \/ CtorGtDir(w)
        \/ CtorRmtree(w)
        \/ CtorMakedirs(w)
        \/ CtorSeqmap(w)
        \/ ProcessCall(w)
        \/ FlushFiles(w)
        \/ FlushSeqmap(w)
        \/ EvalEnter(w)
        \/ EvalBarrier(w)
        \/ EvalGather(w)
        \/ EvalMerge(w)
        \/ ComputeFormatOnly(w)
        \/ ComputeEvaluate(w)
        \/ ComputeEngineFails(w)
        \/ ComputeExtractFails(w)
        \/ EvalBroadcast(w)

Spec == Init /\ [][Next]_vars

\* the steps a rank takes by itself once a call is running: the constructor,
\* the flush and evaluate run to their end when nothing blocks them
RunStep(w) ==
    \/ CtorTmpDir(w) \/ CtorGtDir(w) \/ CtorRmtree(w) \/ CtorMakedirs(w)
    \/ CtorSeqmap(w)
    \/ FlushFiles(w) \/ FlushSeqmap(w)
    \/ EvalBarrier(w) \/ EvalGather(w) \/ EvalMerge(w)
    \/ ComputeFormatOnly(w) \/ ComputeEvaluate(w) \/ ComputeEngineFails(w)
    \/ ComputeExtractFails(w)
    \/ EvalBroadcast(w)

\* every rank is a running process; when process and evaluate are called is
\* up to the caller and not constrained
SpecFair == Init /\ [][Next]_vars /\ \A w \in Workers : WF_vars(RunStep(w))

\* the same program with the post-processors configured or not
SpecPost == InitPost /\ [][Next]_vars

\* ============================================================ properties
\* ---- helpers of the properties
Constructed(w) == pc[w] \notin {"new", "ctor_gt", "ctor_rm", "ctor_mk", "ctor_seqmap"}

\* the frames of h come in increasing frame_index order, all with one video_length
InOrder(h) ==
    /\ \A i \in 1..(Len(h) - 1) : h[i][1] < h[i + 1][1]
    /\ \A i, j \in 1..Len(h) : h[i][2] = h[j][2]

\* ... and the last of them is frame video_length - 1
EndsAtLast(h) == h # <<>> /\ h[Len(h)][1] = h[Len(h)][2] - 1

\* C1: for every rank and video, when the process calls so far presented the
\* video's frames in increasing frame_index order and ended with frame
\* video_length - 1, the flush has run exactly once for that video; while the
\* last frame has not been presented it has not run at all.
C1_FlushExactlyOnce ==
    \A w \in Workers : \A v \in Videos :
        LET h == presented[w][v] IN
        InOrder(h) =>
            flush_count[w][v] = (IF EndsAtLast(h) THEN 1 ELSE 0)

\* C2: every value a rank's evaluate call returned in its c-th cycle is the
\* mapping the leader got from compute_metrics in that cycle, after prefixing:
\* never the placeholder None and never another cycle's value.
C2_SameResult ==
    \A w \in Workers : \A c \in 1..Len(returned[w]) :
        /\ c <= Len(leader_out)
        /\ returned[w][c] = leader_out[c]

\* C2 witness: both ranks returned from two cycles whose results differ, and
\* the result is a non-empty mapping.
C2_Witness ==
    /\ \A w \in Workers : Len(returned[w]) = 2
    /\ returned[1][1] # returned[1][2]
    /\ returned[1][2].tag = "dict"
    /\ returned[1][2].items # {}

\* the cycles in which the leader's evaluate has got past compute_metrics
LeaderComputed ==
    IF pc[0] \in {"barrier", "gather", "merge", "compute"}
    THEN cycle[0] - 1
    ELSE cycle[0]

\* C3: compute_metrics is called once per evaluate cycle, by the main process
\* and by no other rank, and no other rank's evaluate reads, writes or deletes
\* a shared file.
C3_LeaderOnlyCompute ==
    /\ compute_log = [c \in 1..LeaderComputed |-> <<0, c>>]
    /\ touched \subseteq {0}

\* C3 witness: the engine has run in a cycle that the other rank completed.
C3_Witness ==
    /\ engine_log # <<>>
    /\ returned[1] # <<>>
    /\ compute_log # <<>>

\* a rank is inside _save_one_video_gts_preds, between its file writes
Writing(u) == pc[u] \in {"flush_files", "flush_seqmap"}

\* C4: write-before-merge. A rank that is past the barrier of its cycle (in
\* the all-gather, the merge, compute_metrics or the broadcast) finds every
\* rank arrived in that cycle's evaluate, so every flush of every rank's
\* process calls for the cycle has finished its writes; and while the leader
\* is in compute_metrics every other rank is blocked inside the same evaluate
\* cycle and no rank is writing a file.
C4_WriteBeforeMerge ==
    /\ \A w \in Workers :
        pc[w] \in {"gather", "merge", "compute", "bcast"} =>
            \A u \in Workers : cycle[u] >= cycle[w]
    /\ \A w \in Workers :
        pc[w] = "compute" =>
            /\ \A u \in Workers : ~Writing(u)
            /\ \A u \in Workers \ {w} :
                pc[u] \in {"merge", "bcast"} /\ cycle[u] = cycle[w]

\* C4 witness: the leader is in compute_metrics after both ranks flushed a video.
C4_Witness ==
    /\ pc[0] = "compute"
    /\ Len(flush_log) = 2
    /\ flush_log[1] \in Shard(1) \/ flush_log[2] \in Shard(1)
    /\ flush_log[1] \in Shard(0) \/ flush_log[2] \in Shard(0)

\* every rank has handed its manifest to the all-gather of one cycle
AllGathered ==
    /\ \A u \in Workers : contrib_cycle[u] >= 1
    /\ \A u, x \in Workers : contrib_cycle[u] = contrib_cycle[x]

Reverse(list) == [i \in 1..Len(list) |-> list[Len(list) + 1 - i]]

\* two manifests map no common video identifier to different sequence info
Agree(A, B) == \A k \in DOMAIN A \cap DOMAIN B : A[k] = B[k]

\* C5 (as claimed): whatever manifests the ranks gathered, merging the list
\* and merging the list in the opposite order give the same mapping.
C5_MergeOrderIndependent ==
    AllGathered => Merge(Gathered) = Merge(Reverse(Gathered))

\* C5 (amended): when the gathered manifests map no common video identifier
\* to different sequence info, merging the list and merging it in the
\* opposite order give the same mapping.
C5_MergeOrderIndependentWhenAgreeing ==
    (AllGathered /\ \A u, x \in Workers : Agree(contrib[u], contrib[x])) =>
        Merge(Gathered) = Merge(Reverse(Gathered))

\* C5 witness: two non-empty manifests over different videos were gathered.
C5_Witness ==
    /\ AllGathered
    /\ DOMAIN contrib[0] # {}
    /\ DOMAIN contrib[1] # {}
    /\ DOMAIN contrib[0] \cap DOMAIN contrib[1] = {}
    /\ \E w \in Workers : pc[w] = "merge"

\* the manifest file of the run, <tmp>/default-tracker/videoseq.txt
DefaultSeqmap == Path(Append(SharedTmp, TRACKER), "videoseq", "txt")

\* C6: with the default results directory, once a rank is constructed the
\* manifest file holds the header `name` and then one line per flush done so
\* far by any rank, in flush order; no line is ever lost.
C6_ManifestAppendOnly ==
    (resfile_path = "None" /\ \E w \in Workers : Constructed(w)) =>
        /\ DefaultSeqmap \in DOMAIN fs
        /\ fs[DefaultSeqmap] = <<"name">> \o flush_log

\* C7: when compute_metrics has returned on the compute path with the default
\* results directory, no prediction file, ground-truth file or manifest file
\* is left under the temp directory.
C7_CleanupRemovesAll ==
    \A w \in Workers :
        (pc[w] = "bcast" /\ IsMainProcess(w) /\ ~format_only /\ resfile_path = "None") =>
            \A p \in DOMAIN fs : ~IsPrefix(tmp_name[w], p.dir)

\* the lines of a file, none when it does not exist
Lines(f, p) == IF p \in DOMAIN f THEN f[p] ELSE <<>>

\* C8: a flush that finds no ground-truth record buffered writes the
\* prediction file of the video from the buffered predictions and leaves the
\* video's ground-truth file as it was (absent stays absent); its last step
\* appends the video identifier to the manifest file.
C8_ZeroGtFlush ==
    [][\A w \in Workers :
        /\ (/\ pc[w] = "flush_files" /\ pc'[w] = "flush_seqmap"
            /\ seq_info[w][flushing[w]].gt_tracks = <<>>) =>
                /\ (GtFileOf(w, flushing[w]) \in DOMAIN fs')
                     = (GtFileOf(w, flushing[w]) \in DOMAIN fs)
                /\ Lines(fs', GtFileOf(w, flushing[w])) = Lines(fs, GtFileOf(w, flushing[w]))
                /\ PredFileOf(w, flushing[w]) \in DOMAIN fs'
                /\ fs'[PredFileOf(w, flushing[w])]
                     = PredLines(seq_info[w][flushing[w]].pred_tracks)
        /\ (pc[w] = "flush_seqmap" /\ pc'[w] = "idle" /\ ~flush_note[w]) =>
                /\ SeqmapOf(w) \in DOMAIN fs'
                /\ fs'[SeqmapOf(w)] = Append(Lines(fs, SeqmapOf(w)), flushing[w])
      ]_vars

\* C8 witness: the unannotated video was flushed: its prediction file holds a
\* line, it has a manifest line and no ground-truth file.
C8_Witness ==
    /\ Len(flush_log) >= 1
    /\ flush_log[Len(flush_log)] = "b"
    /\ pc[0] = "idle"
    /\ PredFileOf(0, "b") \in DOMAIN fs
    /\ fs[PredFileOf(0, "b")] # <<>>
    /\ GtFileOf(0, "b") \notin DOMAIN fs
    /\ SeqmapOf(0) \in DOMAIN fs
    /\ fs[SeqmapOf(0)][Len(fs[SeqmapOf(0)])] = "b"

\* C9: in format-only mode compute_metrics returns the empty mapping, the
\* evaluation engine is never called, and the call leaves every file and
\* directory as it was.
C9_FormatOnly ==
    /\ [](format_only => engine_log = <<>>)
    /\ [][\A w \in Workers :
            (format_only /\ pc[w] = "compute" /\ pc'[w] # "compute") =>
                /\ pc'[w] = "bcast"
                /\ metrics'[w] = DictVal({})
                /\ fs' = fs
                /\ dirs' = dirs
         ]_vars

\* C9 witness: format-only, two sequences flushed, compute_metrics has
\* returned the empty mapping and the three kinds of file are still there.
C9_Witness ==
    /\ format_only
    /\ pc[0] = "bcast"
    /\ metrics[0] = DictVal({})
    /\ Len(flush_log) = 2
    /\ SeqmapOf(0) \in DOMAIN fs
    /\ \E v \in Videos : PredFileOf(0, v) \in DOMAIN fs /\ GtFileOf(0, v) \in DOMAIN fs

\* C10: no process call of any rank, in any state, fails because the video's
\* entry is missing from the buffer.
C10_LazyCreate ==
    \A w \in Workers : err[w] # "KeyError"

\* C11: on every rank, with each video handed to one rank only, the
\* seq_length of a video is set when process creates the entry, from the
\* video_length of the first item processed for the video, and no later step
\* (a process call carrying another video_length, a flush, the merge of
\* evaluate) changes it or drops the entry.
C11_SeqLengthSetOnce ==
    [][\A w \in Workers : \A v \in Videos :
        /\ v \in DOMAIN seq_info[w] =>
            /\ v \in DOMAIN seq_info'[w]
            /\ seq_info[w][v].seq_length # -1
            /\ seq_info'[w][v].seq_length = seq_info[w][v].seq_length
        /\ (v \notin DOMAIN seq_info[w] /\ v \in DOMAIN seq_info'[w] /\ pc[w] = "idle") =>
            seq_info'[w][v].seq_length
                = presented'[w][v][Len(presented[w][v]) + 1][2]
      ]_vars

\* C11 witness: rank 0 set the length of video a to 2, then processed an item
\* of a carrying video_length 1, flushed a, and merged in evaluate.
C11_Witness ==
    /\ presented[0]["a"] = << <<0, 2>>, <<0, 1>> >>
    /\ flush_log = <<"a">>
    /\ ~lazy[0]
    /\ pc[0] = "idle"
    /\ seq_info[0]["a"].seq_length = 2

\* C12: on the compute path the cleanup is unconditional: once the engine has
\* returned its output to compute_metrics and compute_metrics has ended, by
\* returning or by an exception of the extraction, the cleanup loop has run
\* in that call.
C12_CleanupUnconditional ==
    \A i \in 1..Len(engine_log) :
        LET w == engine_log[i][1] IN
        (pc[w] # "compute" /\ err[w] # "EngineError") =>
            \E j \in 1..Len(cleanup_log) : cleanup_log[j] = engine_log[i]

\* C13: with a results directory configured, nothing is removed from it once
\* writing has begun: no step of any rank deletes a file (manifest or
\* prediction file) that a rank has written under the results directory in
\* this run.
C13_NoRemovalAfterWrite ==
    [][resfile_path = "res" =>
        \A p \in DOMAIN fs : IsPrefix(ResDir, p.dir) => p \in DOMAIN fs'
      ]_vars

\* the directories made by tempfile (mkdtemp, TemporaryDirectory) that exist
TempDirs == {d \in dirs : Len(d) = 1 /\ d # ResDir}

\* C14: once every rank is constructed, every rank's temp directory path is
\* the directory rank 0 created, that directory exists in every later state
\* (process, compute_metrics and evaluate do not remove it), and it is the
\* only temp directory created for the run.
C14_OneSharedTmpDir ==
    (\A w \in Workers : Constructed(w)) =>
        /\ \A w \in Workers : tmp_name[w] = SharedTmp
        /\ SharedTmp \in dirs
        /\ TempDirs = {SharedTmp}

\* C15: a flush writes to the prediction file the buffered predictions passed
\* through the configured post-processors in a fixed order: re-linking first,
\* interpolation on its output. The ground-truth file it writes holds the
\* buffered ground-truth records as accumulated, whatever is configured.
C15_PostProcessOrder ==
    [][\A w \in Workers :
        (pc[w] = "flush_files" /\ pc'[w] = "flush_seqmap") =>
            LET v      == flushing[w]
                info   == seq_info[w][v]
                linked == IF aflink_cfg = "cfg"
                          THEN appearance_free_link(info.pred_tracks)
                          ELSE info.pred_tracks
                final  == IF interpolate_tracks_cfg = "cfg"
                          THEN interpolate_tracks(linked)
                          ELSE linked
            IN  /\ PredFileOf(w, v) \in DOMAIN fs'
                /\ fs'[PredFileOf(w, v)] = PredLines(final)
                /\ info.gt_tracks # <<>> =>
                    /\ GtFileOf(w, v) \in DOMAIN fs'
                    /\ fs'[GtFileOf(w, v)] = GtLines(info.gt_tracks)
      ]_vars

\* C15 witness: both post-processors are configured and rank 0 has flushed the
\* annotated video "a" with two frames buffered: the prediction file holds the
\* re-linked records followed by the interpolated one, the ground-truth file
\* the two raw records.
C15_Witness ==
    /\ aflink_cfg = "cfg"
    /\ interpolate_tracks_cfg = "cfg"
    /\ flush_count[0]["a"] = 1
    /\ pc[0] = "idle"
    /\ PredFileOf(0, "a") \in DOMAIN fs
    /\ fs[PredFileOf(0, "a")] = <<PredLine(11), PredLine(12), PredLine(0)>>
    /\ GtFileOf(0, "a") \in DOMAIN fs
    /\ fs[GtFileOf(0, "a")] = <<GtLine(1), GtLine(2)>>

\* the items of a history that are the last frame of their video
LastFrames(h) == {i \in 1..Len(h) : h[i][1] = h[i][2] - 1}

\* C16: process handles every item of its batch: on every rank that has not
\* failed, every item presented so far has left its video an entry in the
\* buffers, and every presented item with frame_index = video_length - 1 has
\* triggered a flush of its video, also when it came after an item of the
\* same batch that flushed.
C16_EveryItemHandled ==
    \A w \in Workers : \A v \in Videos :
        LET h == presented[w][v] IN
        err[w] = "" =>
            /\ h # <<>> => v \in DOMAIN seq_info[w]
            /\ flush_count[w][v] = Cardinality(LastFrames(h))

\* C17: once the evaluation engine has failed in the leader's compute_metrics,
\* the leader is out of evaluate without having reached the broadcast of that
\* cycle or returned from it, and in every later state every other rank has
\* not returned from that cycle either: a rank that passed the barrier and
\* waits at the broadcast cannot take that step.
C17_EngineFailureBlocks ==
    err[0] = "EngineError" =>
        /\ pc[0] = "crashed"
        /\ Len(returned[0]) = cycle[0] - 1
        /\ \A w \in Workers \ {0} :
            /\ Len(returned[w]) < cycle[0]
            /\ inbox[w] = <<>>
            /\ pc[w] = "bcast" => ~ENABLED EvalBroadcast(w)

\* C17 witness: the engine failed on the leader in its second cycle while the
\* other rank, past the barrier of that cycle, waits at the broadcast.
C17_Witness ==
    /\ err[0] = "EngineError"
    /\ cycle[0] = 2
    /\ cycle[1] = 2
    /\ pc[1] = "bcast"
    /\ Len(returned[1]) = 1

\* C18: whenever the leader is about to build the evaluator configuration,
\* every video of its merged seq_info (the keys of SEQ_INFO) has a line in the
\* manifest file and a prediction file, and every identifier in the manifest
\* file is a key of seq_info.
C18_SeqInfoMatchesManifest ==
    (pc[0] = "compute" /\ ~FormatOnlyReturns(format_only)) =>
        LET manifest == Lines(fs, SeqmapOf(0)) IN
        /\ \A v \in DOMAIN seq_info[0] :
            /\ \E i \in 1..Len(manifest) : manifest[i] = v
            /\ PredFileOf(0, v) \in DOMAIN fs
        /\ \A i \in 1..Len(manifest) :
            manifest[i] # "name" => manifest[i] \in DOMAIN seq_info[0]

\* no line occurs twice
NoDuplicates(lines) ==
    \A i, j \in 1..Len(lines) : lines[i] = lines[j] => i = j

\* C19: over repeated evaluate cycles in which no video is flushed more than
\* once per cycle, whenever the leader runs compute_metrics the manifest file
\* starts with the header line `name` and holds each video at most once.
C19_ManifestCleanEachCycle ==
    (/\ pc[0] = "compute"
     /\ \A w \in Workers : \A v \in Videos : NoDuplicates(flush_cycles[w][v])) =>
        LET manifest == Lines(fs, SeqmapOf(0)) IN
        /\ manifest # <<>>
        /\ manifest[1] = "name"
        /\ NoDuplicates(manifest)

\* some rank ended with an exception (the engine failing in the leader's
\* compute_metrics included)
AnyCrashed == \E u \in Workers : pc[u] = "crashed"

\* C20: under fair scheduling, for every rank and cycle c: unless some rank
\* never makes its c-th evaluate call or some rank crashes, a rank that has
\* entered its c-th evaluate call eventually returns from it. A rank inside
\* evaluate that is not at the barrier, the all-gather or the broadcast can
\* always take its next step.
C20_EvaluateReturns ==
    /\ \A w \in Workers : \A c \in 1..MaxCycles :
        \/ \E u \in Workers : <>[](cycle[u] < c)
        \/ (pc[w] = "barrier" /\ cycle[w] = c)
               ~> (Len(returned[w]) >= c \/ AnyCrashed)
    /\ [](\A w \in Workers :
            /\ pc[w] = "gather" => ENABLED EvalGather(w)
            /\ pc[w] = "compute" =>
                ENABLED (ComputeFormatOnly(w) \/ ComputeEvaluate(w)))

\* C20 witness: no rank crashed and every rank has returned from its second
\* evaluate call.
C20_Witness ==
    /\ ~AnyCrashed
    /\ \A w \in Workers :
        /\ cycle[w] = 2
        /\ Len(returned[w]) = 2
        /\ pc[w] = "idle"

====
